---- MODULE Spec2Model ----
(***************************************************************************)
(* aws-cloudwatch-put-metrics: the namespace validator, the metric-data    *)
(* parser, the publisher (putMetrics) and the action entry point (run),    *)
(* as a state machine over one invocation.                                 *)
(*                                                                         *)
(* Text is a sequence of non-empty string pieces; a JavaScript string      *)
(* whose characters matter (a namespace) is a sequence of one-character    *)
(* pieces.  Concatenation of text is \o, the empty string is << >>.        *)
(***************************************************************************)
EXTENDS Integers, Sequences, FiniteSets, TLC

VARIABLES
    caller,         \* "run": the action entry point; "direct": putMetrics called as a library function
    rawNamespace,   \* the 'namespace' input as supplied by the harness / caller
    rawMetricData,  \* the 'metric-data' input as supplied (a JSON source text)
    pc,             \* position of the single thread of control
    namespace,      \* the namespace argument of putMetrics
    metricDataStr,  \* the metricDataStr argument of putMetrics
    nsCheck,        \* outcome of validateNamespace(namespace), NotRun before it ran
    parsed,         \* outcome of parseMetricData(metricDataStr), NotRun before it ran
    sends,          \* number of client.send calls issued
    request,        \* the PutMetricDataCommand input handed to client.send
    response,       \* the backend's answer to the send, NotRun before it answered
    log,            \* the core.info / core.error lines written so far
    result,         \* the MetricResult returned by putMetrics
    output,         \* the 'metrics-count' output (core.setOutput), Undef while unset
    failed,         \* the core.setFailed message, Undef while unset
    events          \* the order in which validation, parsing and send happened

vars == <<caller, rawNamespace, rawMetricData, pc, namespace, metricDataStr, nsCheck,
          parsed, sends, request, response, log, result, output, failed, events>>

---------------------------------------------------------------------------
(* Program constants *)

MaxNamespaceLength == 255
MaxMetrics == 1000
MaxDimensions == 30

(* Bounds of the model *)

\* raw namespaces enumerated exhaustively over NsAlphabet up to this length
MaxNsLen == 2
\* metric-data arrays built from SmallRecords up to this length
MaxBatch == 2
\* how far past a limit (255, 1000, 30) the long inputs go
Over == 1

---------------------------------------------------------------------------
(* JavaScript values, as JSON.parse produces them *)

Undef == [t |-> "undefined"]
Null == [t |-> "null"]
NotRun == [t |-> "not-run"]
Num(n) == [t |-> "number", n |-> n]
Str(s) == [t |-> "string", s |-> s]
Arr(a) == [t |-> "array", a |-> a]

IsArray(v) == v.t = "array"

\* JavaScript truthiness: undefined, null, 0 and "" are falsy; arrays and objects are truthy
Truthy(v) ==
    CASE v.t = "undefined" -> FALSE
      [] v.t = "null" -> FALSE
      [] v.t = "number" -> v.n # 0
      [] v.t = "string" -> Len(v.s) > 0
      [] OTHER -> TRUE

\* property read v[key] on a non-null value: undefined when the key is absent
Get(v, key) == IF v.t = "object" /\ key \in DOMAIN v THEN v[key] ELSE Undef

\* a thrown Error object, and a function's outcome: a return value or a throw
Error(name, message) == [t |-> "Error", name |-> name, message |-> message]
Return(v) == [threw |-> FALSE, value |-> v]
Throw(e) == [threw |-> TRUE, error |-> e]

Digits == <<"0", "1", "2", "3", "4", "5", "6", "7", "8", "9">>

\* String(n) for an integer: its decimal digits, most significant first
RECURSIVE ToDecimal(_)
ToDecimal(n) ==
    IF n < 0 THEN <<"-">> \o ToDecimal(0 - n)
    ELSE IF n < 10 THEN <<Digits[n + 1]>>
    ELSE ToDecimal(n \div 10) \o <<Digits[(n % 10) + 1]>>

\* template-literal conversion `${v}` of a scalar value
ToStringJS(v) ==
    CASE v.t = "string" -> v.s
      [] v.t = "number" -> ToDecimal(v.n)
      [] v.t = "null" -> <<"null">>
      [] v.t = "undefined" -> <<"undefined">>
      [] OTHER -> <<"[object Object]">>

---------------------------------------------------------------------------
(* validateNamespace *)

LowerCase == {"a", "b", "c", "d", "e", "f", "g", "h", "i", "j", "k", "l", "m",
              "n", "o", "p", "q", "r", "s", "t", "u", "v", "w", "x", "y", "z"}
UpperCase == {"A", "B", "C", "D", "E", "F", "G", "H", "I", "J", "K", "L", "M",
              "N", "O", "P", "Q", "R", "S", "T", "U", "V", "W", "X", "Y", "Z"}
DigitChars == {"0", "1", "2", "3", "4", "5", "6", "7", "8", "9"}
WhiteSpace == {" ", "\t", "\n"}

\* String.prototype.trim: the string without its leading and trailing white space
Trim(s) ==
    LET keep == {i \in 1..Len(s) : s[i] \notin WhiteSpace}
    IN  IF keep = {} THEN << >>
        ELSE LET first == CHOOSE i \in keep : \A j \in keep : i <= j
                 last == CHOOSE i \in keep : \A j \in keep : j <= i
             IN  SubSeq(s, first, last)

\* the character class [a-zA-Z0-9_.\-\/]
InNamespaceClass(c) == c \in LowerCase \cup UpperCase \cup DigitChars \cup {"_", ".", "-", "/"}

\* /^[a-zA-Z0-9_.\-\/]+$/.test(ns)
ValidPattern(ns) == Len(ns) >= 1 /\ \A i \in 1..Len(ns) : InNamespaceClass(ns[i])

\* variant: the length test written with >= in place of >
NsTooLongOffByOne(ns) == Len(ns) >= MaxNamespaceLength
\* namespace.length > 255
NsTooLong(ns) == Len(ns) > MaxNamespaceLength

validateNamespace(ns) ==
    IF Len(ns) = 0 \/ Len(Trim(ns)) = 0
    THEN Throw(Error("Error", <<"Namespace cannot be empty">>))
    ELSE IF NsTooLong(ns)
    THEN Throw(Error("Error", <<"Namespace exceeds maximum length of 255 characters (got ">>
                               \o ToDecimal(Len(ns)) \o <<")">>))
    ELSE IF ~ValidPattern(ns)
    THEN Throw(Error("Error", <<"Namespace \"">> \o ns \o <<"\" contains invalid characters. ">>
                               \o <<"Only alphanumeric characters, hyphens, underscores, periods, and forward slashes are allowed.">>))
    ELSE Return(Undef)

---------------------------------------------------------------------------
(* parseMetricData *)

\* JSON.parse of a source text: the value it denotes, or a SyntaxError
JSONparse(text) ==
    CASE text.kind = "json" -> Return(text.value)
      [] text.kind = "empty" -> Throw(Error("SyntaxError", <<"Unexpected end of JSON input">>))
      [] OTHER -> Throw(Error("SyntaxError", text.error))

\* new Date(v).getTime() for the timestamps of the model, in epoch seconds
DateParse(v) ==
    IF v = Str(<<"2024-01-01T00:00:00Z">>) THEN Num(1704067200) ELSE [t |-> "NaN"]

NewDate(v) == [t |-> "date", time |-> DateParse(v)]

\* if (data.Value !== undefined) metric.Value = data.Value
ValueField(data) == Get(data, "Value")

\* if (data.Unit) metric.Unit = data.Unit
UnitField(data) == IF Truthy(Get(data, "Unit")) THEN Get(data, "Unit") ELSE Undef

\* if (data.Timestamp) metric.Timestamp = new Date(data.Timestamp)
TimestampField(data) ==
    IF Truthy(Get(data, "Timestamp")) THEN NewDate(Get(data, "Timestamp")) ELSE Undef

\* the guard of the Dimensions block: data.Dimensions && Array.isArray(data.Dimensions)
HasDimensionsArray(data) == Truthy(Get(data, "Dimensions")) /\ IsArray(Get(data, "Dimensions"))

\* variant: the dimension limit off by one
TooManyDimensionsOffByOne(data) ==
    HasDimensionsArray(data) /\ Len(Get(data, "Dimensions").a) > MaxDimensions + 1
\* data.Dimensions.length > 30
TooManyDimensions(data) ==
    HasDimensionsArray(data) /\ Len(Get(data, "Dimensions").a) > MaxDimensions

DimensionsField(data) == IF HasDimensionsArray(data) THEN Get(data, "Dimensions") ELSE Undef

\* if (data.Values) metric.Values = data.Values
ValuesField(data) == IF Truthy(Get(data, "Values")) THEN Get(data, "Values") ELSE Undef

\* variant: Counts kept only when Values is present too
CountsDroppedWithoutValues(data) ==
    IF Truthy(Get(data, "Counts")) /\ Truthy(Get(data, "Values")) THEN Get(data, "Counts") ELSE Undef
\* if (data.Counts) metric.Counts = data.Counts
CountsField(data) == IF Truthy(Get(data, "Counts")) THEN Get(data, "Counts") ELSE Undef

\* if (data.StatisticValues) metric.StatisticValues = data.StatisticValues
StatisticValuesField(data) ==
    IF Truthy(Get(data, "StatisticValues")) THEN Get(data, "StatisticValues") ELSE Undef

\* the MetricDatum the loop body assembles from one input element
BuildMetric(data) ==
    [t |-> "object",
     MetricName |-> Get(data, "MetricName"),
     Value |-> ValueField(data),
     Unit |-> UnitField(data),
     Timestamp |-> TimestampField(data),
     Dimensions |-> DimensionsField(data),
     Values |-> ValuesField(data),
     Counts |-> CountsField(data),
     StatisticValues |-> StatisticValuesField(data)]

\* metric.Value === undefined && !metric.Values && !metric.StatisticValues
NoDataPoint(metric) ==
    /\ metric.Value = Undef
    /\ ~Truthy(metric.Values)
    /\ ~Truthy(metric.StatisticValues)

\* one iteration of the loop, for the element at (0-based) index i
ParseElement(data, i) ==
    IF data.t \in {"null", "undefined"}
    THEN Throw(Error("TypeError", <<"Cannot read properties of ">> \o ToStringJS(data)
                                   \o <<" (reading 'MetricName')">>))
    ELSE IF ~Truthy(Get(data, "MetricName"))
    THEN Throw(Error("Error", <<"Metric at index ">> \o ToDecimal(i)
                               \o <<" is missing required field 'MetricName'">>))
    ELSE IF TooManyDimensions(data)
    THEN Throw(Error("Error", <<"Metric \"">> \o ToStringJS(Get(data, "MetricName"))
                               \o <<"\" has too many dimensions (max 30, got ">>
                               \o ToDecimal(Len(Get(data, "Dimensions").a)) \o <<")">>))
    ELSE IF NoDataPoint(BuildMetric(data))
    THEN Throw(Error("Error", <<"Metric \"">> \o ToStringJS(Get(data, "MetricName"))
                               \o <<"\" must have at least one of: Value, Values, or StatisticValues">>))
    ELSE Return(BuildMetric(data))

\* variant: the batch limit off by one
BatchTooLargeOffByOne(a) == Len(a) > MaxMetrics + 1
\* parsedData.length > 1000
BatchTooLarge(a) == Len(a) > MaxMetrics

\* variant: the metrics collected in reverse index order
ParseLoopReversed(a) ==
    LET bad == {i \in 1..Len(a) : ParseElement(a[i], i - 1).threw}
    IN  IF bad # {}
        THEN ParseElement(a[CHOOSE i \in bad : \A j \in bad : i <= j],
                          (CHOOSE i \in bad : \A j \in bad : i <= j) - 1)
        ELSE Return([i \in 1..Len(a) |-> ParseElement(a[Len(a) + 1 - i], Len(a) - i).value])
\* the for loop over the array: the throw of the first element that fails, else
\* the metrics pushed in index order
ParseLoop(a) ==
    LET bad == {i \in 1..Len(a) : ParseElement(a[i], i - 1).threw}
    IN  IF bad # {}
        THEN ParseElement(a[CHOOSE i \in bad : \A j \in bad : i <= j],
                          (CHOOSE i \in bad : \A j \in bad : i <= j) - 1)
        ELSE Return([i \in 1..Len(a) |-> ParseElement(a[i], i - 1).value])

parseMetricData(text) ==
    IF JSONparse(text).threw
    THEN Throw(Error("Error", <<"Failed to parse metric-data JSON: ">>
                               \o JSONparse(text).error.message))
    ELSE LET parsedData == JSONparse(text).value
         IN  IF ~IsArray(parsedData)
             THEN Throw(Error("Error", <<"metric-data must be a JSON array">>))
             ELSE IF Len(parsedData.a) = 0
             THEN Throw(Error("Error", <<"metric-data array cannot be empty">>))
             ELSE IF BatchTooLarge(parsedData.a)
             THEN Throw(Error("Error", <<"metric-data array exceeds maximum size of 1000 metrics (got ">>
                                        \o ToDecimal(Len(parsedData.a)) \o <<")">>))
             ELSE ParseLoop(parsedData.a)

---------------------------------------------------------------------------
(* putMetrics and run *)

\* error instanceof Error ? error.message : String(error)
\* variant: a catch block that discards the thrown message
ErrorMessageGeneric(e) == <<"Unknown error">>
ErrorMessageOf(e) == IF e.t = "Error" THEN e.message ELSE ToStringJS(e)

Info(text) == [level |-> "info", text |-> text]
ErrorLine(text) == [level |-> "error", text |-> text]

Success(n) == [success |-> TRUE, metricsCount |-> Num(n), error |-> Undef]
Failure(message) == [success |-> FALSE, metricsCount |-> Undef, error |-> Str(message)]

\* the catch block of putMetrics: what it logs and what it returns
CatchLog(e) == ErrorLine(<<"Failed to put metrics: ">> \o ErrorMessageOf(e))
CatchResult(e) == Failure(ErrorMessageOf(e))

\* parts.join(sep) for an array of texts
RECURSIVE Join(_, _)
Join(parts, sep) ==
    IF Len(parts) = 0 THEN << >>
    ELSE IF Len(parts) = 1 THEN parts[1]
    ELSE parts[1] \o sep \o Join(Tail(parts), sep)

\* metric.Dimensions.map(d => `${d.Name}=${d.Value}`): reading d.Name of a null
\* entry is a TypeError
DimensionsText(dims) ==
    IF \E i \in 1..Len(dims.a) : dims.a[i].t \in {"null", "undefined"}
    THEN Throw(Error("TypeError", <<"Cannot read properties of null (reading 'Name')">>))
    ELSE Return(<<" [">>
                \o Join([i \in 1..Len(dims.a) |->
                           ToStringJS(Get(dims.a[i], "Name")) \o <<"=">>
                           \o ToStringJS(Get(dims.a[i], "Value"))], <<", ">>)
                \o <<"]">>)

\* the body of the logging loop for one metric: the line it writes, or its throw
MetricLogLine(metric) ==
    LET dims == IF Truthy(metric.Dimensions) THEN DimensionsText(metric.Dimensions)
                ELSE Return(<< >>)
        value == IF metric.Value # Undef THEN ToStringJS(metric.Value) ELSE <<"statistic-set">>
        unit == IF Truthy(metric.Unit) THEN <<" ">> \o ToStringJS(metric.Unit) ELSE << >>
    IN  IF dims.threw THEN dims
        ELSE Return(Info(<<"  - ">> \o ToStringJS(metric.MetricName) \o dims.value
                         \o <<": ">> \o value \o unit))

\* the logging loop: the lines written, and the error that ended it (Undef if none)
LogLoop(metrics) ==
    LET bad == {i \in 1..Len(metrics) : MetricLogLine(metrics[i]).threw}
        stop == IF bad = {} THEN Len(metrics) + 1
                ELSE CHOOSE i \in bad : \A j \in bad : i <= j
    IN  [lines |-> [i \in 1..(stop - 1) |-> MetricLogLine(metrics[i]).value],
         error |-> IF bad = {} THEN Undef ELSE MetricLogLine(metrics[stop]).error]

\* core.getInput(name, {required: true}) of a string input: throws when the
\* input is empty, else returns it trimmed
getInput(val, name) ==
    IF Len(val) = 0
    THEN Throw(Error("Error", <<"Input required and not supplied: ", name>>))
    ELSE Return(Trim(val))

\* the same for the metric-data source text; trimming a JSON text leaves the
\* value it denotes unchanged
getInputText(text, name) ==
    IF text.kind = "empty"
    THEN Throw(Error("Error", <<"Input required and not supplied: ", name>>))
    ELSE Return(text)

\* String(result.metricsCount || 0)
MetricsCountOutput(r) ==
    Str(ToDecimal(IF Truthy(r.metricsCount) THEN r.metricsCount.n ELSE 0))

\* result.error || 'Failed to put metrics'
FailureMessage(r) == IF Truthy(r.error) THEN r.error.s ELSE <<"Failed to put metrics">>

---------------------------------------------------------------------------
(* The inputs of an invocation *)

Repeat(c, n) == [i \in 1..n |-> c]

NsAlphabet == {"a", "Z", "7", "_", ".", "-", "/", " ", "#"}

ShortNamespaces == UNION {[1..n -> NsAlphabet] : n \in 0..MaxNsLen}

NamedNamespaces ==
    {<<"M", "y", "/", "A", "p", "p", "_", "1", ".", "0">>,
     <<"T", "e", "s", "t">>,
     <<"M", "y", " ", "A", "p", "p">>,
     <<"M", "y", "#", "A", "p", "p">>,
     <<" ", "T", "e", "s", "t", "\n">>,
     <<" ", "\t", " ">>}

LongLengths == (MaxNamespaceLength - 1)..(MaxNamespaceLength + Over)

LongNamespaces ==
    {Repeat("a", n) : n \in LongLengths}
    \cup {Repeat("a", n - 1) \o <<"#">> : n \in LongLengths}
    \cup {Repeat("a", n - 1) \o <<" ">> : n \in LongLengths}

AllNamespaces == ShortNamespaces \cup NamedNamespaces \cup LongNamespaces

FewNamespaces == {<<"T", "e", "s", "t">>, <<"M", "y", " ", "A", "p", "p">>}

Dimension(name, value) == [t |-> "object", Name |-> Str(<<name>>), Value |-> Str(<<value>>)]

StatisticSet ==
    [t |-> "object", SampleCount |-> Num(100), Sum |-> Num(1234),
     Minimum |-> Num(10), Maximum |-> Num(50)]

MetricObject(name, value, unit, timestamp, dimensions, values, counts, statistics) ==
    [t |-> "object", MetricName |-> name, Value |-> value, Unit |-> unit,
     Timestamp |-> timestamp, Dimensions |-> dimensions, Values |-> values,
     Counts |-> counts, StatisticValues |-> statistics]

DimensionLengths == {0, 1, 2} \cup ((MaxDimensions - 1)..(MaxDimensions + Over))

DimensionsInputs ==
    {Undef, Null, Str(<<"env=prod">>), Arr(<<Null>>),
     Arr(<<Dimension("env", "prod"), Null>>)}
    \cup {Arr(Repeat(Dimension("env", "prod"), n)) : n \in DimensionLengths}

\* records that vary the name and the data fields
DataFieldRecords ==
    {MetricObject(name, value, Undef, Undef, Undef, values, counts, statistics) :
        name \in {Undef, Str(<< >>), Str(<<"X">>)},
        value \in {Undef, Null, Num(0), Num(1)},
        values \in {Undef, Null, Arr(<< >>), Arr(<<Num(1), Num(2)>>)},
        counts \in {Undef, Arr(<<Num(3)>>)},
        statistics \in {Undef, Null, StatisticSet}}

\* records that vary the metadata fields
MetadataRecords ==
    {MetricObject(Str(<<"X">>), value, unit, timestamp, dimensions, Undef, Undef, Undef) :
        value \in {Undef, Num(1)},
        unit \in {Undef, Str(<< >>), Str(<<"Count">>)},
        timestamp \in {Undef, Str(<<"2024-01-01T00:00:00Z">>), Str(<<"yesterday">>)},
        dimensions \in DimensionsInputs}

AllRecords == DataFieldRecords \cup MetadataRecords

SimpleRecord ==
    MetricObject(Str(<<"X">>), Num(1), Undef, Undef, Undef, Undef, Undef, Undef)

\* the elements of the longer arrays: two equal valid records, a different valid
\* one, one with a null dimension, one without data, and a null element
SmallRecords ==
    {SimpleRecord,
     MetricObject(Str(<<"Y">>), Undef, Str(<<"Count">>), Undef,
                  Arr(<<Dimension("env", "prod")>>), Undef, Undef, StatisticSet),
     MetricObject(Str(<<"X">>), Num(2), Undef, Undef, Arr(<<Null>>), Undef, Undef, Undef),
     MetricObject(Str(<<"X">>), Undef, Undef, Undef, Undef, Undef, Undef, Undef),
     Null}

BatchLengths == (MaxMetrics - 1)..(MaxMetrics + Over)

Json(v) == [kind |-> "json", value |-> v]

\* "{not valid"
MalformedText ==
    [kind |-> "malformed", error |-> <<"Unexpected token n in JSON at position 1">>]

EmptyText == [kind |-> "empty"]

AllMetricData ==
    {EmptyText, MalformedText, Json(Null), Json(Num(5)), Json(Str(<<"[]">>)), Json(SimpleRecord)}
    \cup {Json(Arr(<<r>>)) : r \in AllRecords}
    \cup {Json(Arr(a)) : a \in UNION {[1..n -> SmallRecords] : n \in 0..MaxBatch}}
    \cup {Json(Arr(Repeat(SimpleRecord, n))) : n \in BatchLengths}
    \cup {Json(Arr(Repeat(SimpleRecord, n - 1) \o <<Null>>)) : n \in BatchLengths}

FewMetricData == {Json(Arr(<<SimpleRecord>>)), Json(Arr(<< >>)), MalformedText}

\* what the backend may answer a send with when it rejects it
BackendErrors ==
    {Error("AccessDenied", <<"User is not authorized to perform: cloudwatch:PutMetricData">>),
     Error("Error", << >>),
     Str(<<"socket hang up">>)}

---------------------------------------------------------------------------
(* The state machine *)

Init ==
    /\ caller \in {"run", "direct"}
    /\ \/ rawNamespace \in AllNamespaces /\ rawMetricData \in FewMetricData
       \/ rawNamespace \in FewNamespaces /\ rawMetricData \in AllMetricData
    /\ pc = "start"
    /\ namespace = Undef
    /\ metricDataStr = Undef
    /\ nsCheck = NotRun
    /\ parsed = NotRun
    /\ sends = 0
    /\ request = Undef
    /\ response = NotRun
    /\ log = << >>
    /\ result = Undef
    /\ output = Undef
    /\ failed = Undef
    /\ events = << >>

\* run, lines 204-216: read the two inputs and call putMetrics; a missing input
\* is thrown to run's catch, which marks the invocation failed
Run_Start ==
    /\ caller = "run"
    /\ pc = "start"
    /\ LET ns == getInput(rawNamespace, "namespace")
           md == getInputText(rawMetricData, "metric-data")
       IN  IF ns.threw \/ md.threw
           THEN /\ failed' = Str((IF ns.threw THEN ns ELSE md).error.message)
                /\ pc' = "done"
                /\ UNCHANGED <<namespace, metricDataStr, log>>
           ELSE /\ namespace' = ns.value
                /\ metricDataStr' = md.value
                /\ log' = log \o <<Info(<<"AWS CloudWatch Put Metrics">>),
                                   Info(<<"Namespace: ">> \o ns.value)>>
                /\ pc' = "putMetrics"
                /\ UNCHANGED failed
    /\ UNCHANGED <<caller, rawNamespace, rawMetricData, nsCheck, parsed, sends, request,
                   response, result, output, events>>

\* putMetrics called as an exported function, with the arguments as given
Direct_Call ==
    /\ caller = "direct"
    /\ pc = "start"
    /\ namespace' = rawNamespace
    /\ metricDataStr' = rawMetricData
    /\ pc' = "putMetrics"
    /\ UNCHANGED <<caller, rawNamespace, rawMetricData, nsCheck, parsed, sends, request,
                   response, log, result, output, failed, events>>

\* putMetrics, lines 154-158: validate the namespace
PM_ValidateNamespace ==
    /\ pc = "putMetrics"
    /\ nsCheck' = validateNamespace(namespace)
    /\ events' = Append(events, "validateNamespace")
    /\ IF nsCheck'.threw
       THEN /\ log' = Append(log, CatchLog(nsCheck'.error))
            /\ result' = CatchResult(nsCheck'.error)
            /\ pc' = "returned"
       ELSE /\ log' = Append(log, Info(<<"Parsing metric data...">>))
            /\ pc' = "parse"
            /\ UNCHANGED result
    /\ UNCHANGED <<caller, rawNamespace, rawMetricData, namespace, metricDataStr, parsed,
                   sends, request, response, output, failed>>

\* putMetrics, lines 160-163: parse and validate the metric data
PM_Parse ==
    /\ pc = "parse"
    /\ parsed' = parseMetricData(metricDataStr)
    /\ events' = Append(events, "parseMetricData")
    /\ IF parsed'.threw
       THEN /\ log' = Append(log, CatchLog(parsed'.error))
            /\ result' = CatchResult(parsed'.error)
            /\ pc' = "returned"
       ELSE /\ log' = Append(log, Info(<<"Publishing ">> \o ToDecimal(Len(parsed'.value))
                                        \o <<" metric(s) to namespace \"">> \o namespace
                                        \o <<"\"">>))
            /\ pc' = "send"
            /\ UNCHANGED result
    /\ UNCHANGED <<caller, rawNamespace, rawMetricData, namespace, metricDataStr, nsCheck,
                   sends, request, response, output, failed>>

\* variant: the command sent a second time
PM_SendTwice ==
    /\ pc = "send"
    /\ request' = [Namespace |-> namespace, MetricData |-> parsed.value]
    /\ sends' = sends + 2
    /\ events' = events \o <<"send", "send">>
    /\ pc' = "awaiting"
    /\ UNCHANGED <<caller, rawNamespace, rawMetricData, namespace, metricDataStr, nsCheck,
                   parsed, response, log, result, output, failed>>
\* putMetrics, lines 165-171: build the command and send it
PM_Send ==
    /\ pc = "send"
    /\ request' = [Namespace |-> namespace, MetricData |-> parsed.value]
    /\ sends' = sends + 1
    /\ events' = Append(events, "send")
    /\ pc' = "awaiting"
    /\ UNCHANGED <<caller, rawNamespace, rawMetricData, namespace, metricDataStr, nsCheck,
                   parsed, response, log, result, output, failed>>

\* the backend accepts the batch: the awaited promise resolves
Backend_Accept ==
    /\ pc = "awaiting"
    /\ response' = Return(Undef)
    /\ pc' = "resumed"
    /\ UNCHANGED <<caller, rawNamespace, rawMetricData, namespace, metricDataStr, nsCheck,
                   parsed, sends, request, log, result, output, failed, events>>

\* the backend (or the client) rejects the batch: the awaited promise rejects
Backend_Reject ==
    /\ pc = "awaiting"
    /\ \E e \in BackendErrors : response' = Throw(e)
    /\ pc' = "resumed"
    /\ UNCHANGED <<caller, rawNamespace, rawMetricData, namespace, metricDataStr, nsCheck,
                   parsed, sends, request, log, result, output, failed, events>>

\* putMetrics, lines 171-196: after the await, either the catch block, or the
\* success line (its check mark left out), the logging loop and the result
PM_Resume ==
    /\ pc = "resumed"
    /\ IF response.threw
       THEN /\ log' = Append(log, CatchLog(response.error))
            /\ result' = CatchResult(response.error)
       ELSE LET loop == LogLoop(parsed.value)
                lines == Append(log, Info(<<"Metrics published successfully">>)) \o loop.lines
            IN  IF loop.error # Undef
                THEN /\ log' = Append(lines, CatchLog(loop.error))
                     /\ result' = CatchResult(loop.error)
                ELSE /\ log' = lines
                     /\ result' = Success(Len(parsed.value))
    /\ pc' = "returned"
    /\ UNCHANGED <<caller, rawNamespace, rawMetricData, namespace, metricDataStr, nsCheck,
                   parsed, sends, request, response, output, failed, events>>

\* variant: run sets the output before looking at result.success
SetOutputAndFail ==
    /\ caller = "run"
    /\ pc = "returned"
    /\ output' = MetricsCountOutput(result)
    /\ failed' = Str(FailureMessage(result))
    /\ pc' = "done"
    /\ UNCHANGED <<caller, rawNamespace, rawMetricData, namespace, metricDataStr, nsCheck,
                   parsed, sends, request, response, log, result, events>>
\* run, lines 218-236: a failed result is thrown to run's catch and marks the
\* invocation failed; a successful one sets the metrics-count output
Run_HandleResult ==
    /\ caller = "run"
    /\ pc = "returned"
    /\ IF ~result.success
       THEN /\ failed' = Str(FailureMessage(result))
            /\ UNCHANGED <<output, log>>
       ELSE /\ output' = MetricsCountOutput(result)
            /\ log' = log \o <<Info(<< >>),
                               Info(Repeat("=", 50)),
                               Info(<<"Successfully published ">>
                                    \o ToStringJS(result.metricsCount) \o <<" metric(s)">>),
                               Info(<<"Namespace: ">> \o namespace),
                               Info(Repeat("=", 50))>>
            /\ UNCHANGED failed
    /\ pc' = "done"
    /\ UNCHANGED <<caller, rawNamespace, rawMetricData, namespace, metricDataStr, nsCheck,
                   parsed, sends, request, response, result, events>>

Next ==
    \/ Run_Start
    \/ Direct_Call
    \/ PM_ValidateNamespace
    \/ PM_Parse
    \/ PM_Send
    \/ Backend_Accept
    \/ Backend_Reject
    \/ PM_Resume
    \/ Run_HandleResult

Spec == Init /\ [][Next]_vars

---------------------------------------------------------------------------
(* Properties *)

Ran(outcome) == outcome # NotRun
Passed(outcome) == outcome # NotRun /\ ~outcome.threw
Threw(outcome) == outcome # NotRun /\ outcome.threw

\* the input array, when the metric-data text denotes one
IsArrayInput == metricDataStr # Undef /\ metricDataStr.kind = "json" /\ IsArray(metricDataStr.value)
InputArray == metricDataStr.value.a

Returned == pc \in {"returned", "done"} /\ result # Undef

IsNumber(v) == v.t = "number"
IsString(v) == v.t = "string"
IsObject(v) == v.t = "object"

\* a record as the documented format describes it: a non-empty name, fields of
\* the documented types, at most 30 dimension objects, at least one data field
WellFormedDimensions(v) ==
    /\ IsArray(v)
    /\ Len(v.a) <= 30
    /\ \A i \in 1..Len(v.a) : IsObject(v.a[i])

WellFormedRecord(r) ==
    /\ IsObject(r)
    /\ IsString(r.MetricName) /\ Len(r.MetricName.s) > 0
    /\ r.Value = Undef \/ IsNumber(r.Value)
    /\ r.Unit = Undef \/ (IsString(r.Unit) /\ Len(r.Unit.s) > 0)
    /\ r.Timestamp = Undef \/ IsString(r.Timestamp)
    /\ r.Dimensions = Undef \/ WellFormedDimensions(r.Dimensions)
    /\ r.Values = Undef \/ IsArray(r.Values)
    /\ r.Counts = Undef \/ IsArray(r.Counts)
    /\ r.StatisticValues = Undef \/ IsObject(r.StatisticValues)
    /\ IsNumber(r.Value) \/ IsArray(r.Values) \/ IsObject(r.StatisticValues)

WellFormedBatch ==
    /\ IsArrayInput
    /\ Len(InputArray) \in 1..1000
    /\ \A i \in 1..Len(InputArray) : WellFormedRecord(InputArray[i])

\* C1: validation of the namespace, then parsing, then the send, in that order;
\* one send when both validations pass, none when either fails (bad namespace,
\* malformed JSON, non-array, empty or oversized array, rejected record), and
\* never more than one send.
C1_ValidateParseSendOnce ==
    /\ sends <= 1
    /\ \E n \in 0..3 : events = SubSeq(<<"validateNamespace", "parseMetricData", "send">>, 1, n)
    /\ sends = Cardinality({i \in 1..Len(events) : events[i] = "send"})
    /\ sends = 1 => Passed(nsCheck) /\ Passed(parsed)
    /\ Threw(nsCheck) => sends = 0 /\ ~Ran(parsed)
    /\ Threw(parsed) => sends = 0
    /\ Returned => (sends = 1 <=> Passed(nsCheck) /\ Passed(parsed))
    /\ (metricDataStr # Undef /\ metricDataStr.kind # "json") => sends = 0
    /\ (metricDataStr # Undef /\ metricDataStr.kind = "json" /\ ~IsArrayInput) => sends = 0
    /\ (IsArrayInput /\ Len(InputArray) \notin 1..1000) => sends = 0
    /\ (IsArrayInput /\ \E i \in 1..Len(InputArray) :
            \/ ~IsObject(InputArray[i])
            \/ ~Truthy(InputArray[i].MetricName)
            \/ (IsArray(InputArray[i].Dimensions) /\ Len(InputArray[i].Dimensions.a) > 30))
       => sends = 0

C1_Witness ==
    /\ Returned
    /\ sends = 1
    /\ events = <<"validateNamespace", "parseMetricData", "send">>
    /\ Len(request.MetricData) = 2

\* the text of what the backend threw: an Error's message, or the thrown string
BackendMessage == IF response.error.t = "Error" THEN response.error.message ELSE response.error.s

\* C2 (as amended): when both validations pass and the send fails, putMetrics
\* returns success = false with no count and the backend's message itself,
\* unprefixed, as the error; the prefix goes on the logged error line only.
C2_BackendErrorVerbatim ==
    (Returned /\ Threw(response)) =>
        /\ Passed(nsCheck) /\ Passed(parsed)
        /\ result.success = FALSE
        /\ result.metricsCount = Undef
        /\ result.error = Str(BackendMessage)
        /\ \E i \in 1..Len(log) :
              log[i] = [level |-> "error", text |-> <<"Failed to put metrics: ">> \o BackendMessage]

C2_Witness ==
    /\ Returned
    /\ Threw(response)
    /\ response.error.t = "Error"
    /\ Len(response.error.message) > 0
    /\ result.error.s = response.error.message

\* C2 as stated: the returned error is the backend's message behind a prefix.
C2_ReturnedErrorIsPrefixed ==
    (Returned /\ Threw(response)) =>
        /\ result.success = FALSE
        /\ result.metricsCount = Undef
        /\ Len(result.error.s) > Len(BackendMessage)
        /\ SubSeq(result.error.s, Len(result.error.s) - Len(BackendMessage) + 1,
                  Len(result.error.s)) = BackendMessage

\* C3: a well-formed array of 1..1000 valid records parses to a sequence of the
\* same length whose i-th record has the name, Value, Unit, Dimensions, Values,
\* Counts and StatisticValues of the i-th input element.
C3_ParsePreservesRecords ==
    (Ran(parsed) /\ WellFormedBatch) =>
        /\ ~parsed.threw
        /\ Len(parsed.value) = Len(InputArray)
        /\ \A i \in 1..Len(InputArray) :
              /\ parsed.value[i].MetricName = InputArray[i].MetricName
              /\ parsed.value[i].Value = InputArray[i].Value
              /\ parsed.value[i].Unit = InputArray[i].Unit
              /\ parsed.value[i].Dimensions = InputArray[i].Dimensions
              /\ parsed.value[i].Values = InputArray[i].Values
              /\ parsed.value[i].Counts = InputArray[i].Counts
              /\ parsed.value[i].StatisticValues = InputArray[i].StatisticValues

C3_Witness ==
    /\ Ran(parsed)
    /\ WellFormedBatch
    /\ Len(InputArray) = 2
    /\ InputArray[1] = InputArray[2]
    /\ Len(parsed.value) = 2
    /\ parsed.value[1] = parsed.value[2]

\* C4: an empty array fails with a validation error, an array of more than 1000
\* elements fails, an array of 1000 valid records succeeds, and every batch
\* handed to the backend has between 1 and 1000 records.
C4_BatchSizeBounds ==
    /\ (Ran(parsed) /\ IsArrayInput /\ Len(InputArray) = 0) =>
           /\ parsed.threw
           /\ parsed.error.message = <<"metric-data array cannot be empty">>
    /\ (Ran(parsed) /\ IsArrayInput /\ Len(InputArray) >= 1001) => parsed.threw
    /\ (Ran(parsed) /\ IsArrayInput /\ Len(InputArray) = 1000
          /\ \A i \in 1..1000 : WellFormedRecord(InputArray[i])) =>
           /\ ~parsed.threw
           /\ Len(parsed.value) = 1000
    /\ Passed(parsed) => Len(parsed.value) \in 1..1000
    /\ sends > 0 => Len(request.MetricData) \in 1..1000

C4_Witness ==
    /\ sends = 1
    /\ Len(InputArray) = 1000
    /\ Len(request.MetricData) = 1000

\* a record that is valid but for the number of its dimensions
ValidButForDimensionCount(r) ==
    /\ IsObject(r)
    /\ IsArray(r.Dimensions)
    /\ WellFormedRecord([r EXCEPT !.Dimensions = Undef])
    /\ \A i \in 1..Len(r.Dimensions.a) : IsObject(r.Dimensions.a[i])

CarriesData(m) == IsNumber(m.Value) \/ IsArray(m.Values) \/ IsObject(m.StatisticValues)

\* C6: every record of a returned batch carries at least one of Value, Values
\* and StatisticValues; an element carrying none of them (each absent, null or
\* otherwise without data) makes the whole parse fail.
C6_EveryRecordCarriesData ==
    /\ Passed(parsed) => \A i \in 1..Len(parsed.value) : CarriesData(parsed.value[i])
    /\ (Ran(parsed) /\ IsArrayInput /\ \E i \in 1..Len(InputArray) :
            IsObject(InputArray[i]) /\ ~CarriesData(InputArray[i])) => parsed.threw

\* the namespaces the contract accepts
AllowedNamespaceChars ==
    {"a", "b", "c", "d", "e", "f", "g", "h", "i", "j", "k", "l", "m", "n", "o", "p", "q",
     "r", "s", "t", "u", "v", "w", "x", "y", "z", "A", "B", "C", "D", "E", "F", "G", "H",
     "I", "J", "K", "L", "M", "N", "O", "P", "Q", "R", "S", "T", "U", "V", "W", "X", "Y",
     "Z", "0", "1", "2", "3", "4", "5", "6", "7", "8", "9", "_", ".", "-", "/"}

AcceptableNamespace(ns) ==
    /\ Len(ns) >= 1
    /\ \E i \in 1..Len(ns) : ns[i] \notin {" ", "\t", "\n"}
    /\ Len(ns) <= 255
    /\ \A i \in 1..Len(ns) : ns[i] \in AllowedNamespaceChars

\* C7: validateNamespace accepts a namespace exactly when it is non-empty, not
\* only white space, at most 255 characters long and made of [A-Za-z0-9_.-/];
\* "My/App_1.0" passes, a space or '#' fails, 255 characters pass, 256 fail; and
\* the validation changes nothing but the position in putMetrics.
C7_NamespaceAcceptance ==
    Ran(nsCheck) =>
        /\ ~nsCheck.threw <=> AcceptableNamespace(namespace)
        /\ namespace = <<"M", "y", "/", "A", "p", "p", "_", "1", ".", "0">> => ~nsCheck.threw
        /\ (\E i \in 1..Len(namespace) : namespace[i] \in {" ", "#"}) => nsCheck.threw
        /\ Len(namespace) >= 256 => nsCheck.threw
        /\ namespace = Repeat("a", 255) => ~nsCheck.threw
        /\ pc = "parse" => /\ sends = 0 /\ request = Undef /\ result = Undef
                           /\ output = Undef /\ failed = Undef

C7_Witness ==
    /\ Passed(nsCheck)
    /\ Len(namespace) = 255

RECURSIVE DecimalValue(_)
\* the number a sequence of decimal digits denotes
DecimalValue(d) ==
    IF Len(d) = 0 THEN 0
    ELSE 10 * DecimalValue(SubSeq(d, 1, Len(d) - 1))
         + (CHOOSE k \in 0..9 : Digits[k + 1] = d[Len(d)])

\* C8: a run ends with exactly one of: metrics-count set to the number of input
\* records (only after both validations and the one send succeeded), or the
\* invocation marked failed with a message; never both, never a second attempt.
C8_OneTerminalOutcome ==
    /\ ~(output # Undef /\ failed # Undef)
    /\ (output # Undef \/ failed # Undef) => pc = "done"
    /\ sends <= 1
    /\ (caller = "run" /\ pc # "done") => ENABLED Next
    /\ pc = "done" =>
           /\ (output # Undef) # (failed # Undef)
           /\ output # Undef =>
                  /\ Passed(nsCheck) /\ Passed(parsed) /\ Passed(response)
                  /\ sends = 1
                  /\ DecimalValue(output.s) = Len(InputArray)
           /\ failed # Undef => Len(failed.s) > 0
           /\ (Threw(nsCheck) \/ Threw(parsed) \/ Threw(response)) => failed # Undef

C8_Witness ==
    /\ pc = "done"
    /\ output = Str(<<"2">>)
    /\ failed = Undef
    /\ Len(InputArray) = 2

\* C9: once the backend has accepted the batch, putMetrics returns success with
\* the number of records, whatever happens in the logging loop.
C9_LoggingIsNotAFailurePoint ==
    (Returned /\ Passed(response)) => result = Success(Len(parsed.value))

\* C10 (as amended): Counts is copied through whether or not Values is present:
\* in a successful parse every record whose input had a Counts array carries
\* that array unchanged, with no check against Values.
C10_CountsCopiedThrough ==
    (Passed(parsed) /\ IsArrayInput) =>
        \A i \in 1..Len(InputArray) :
            IsArray(InputArray[i].Counts) => parsed.value[i].Counts = InputArray[i].Counts

C10_Witness ==
    /\ Passed(parsed)
    /\ IsArrayInput
    /\ Len(InputArray) = 1
    /\ IsArray(InputArray[1].Counts)
    /\ InputArray[1].Values = Undef
    /\ parsed.value[1].Counts = InputArray[1].Counts

\* C10 as stated: a Counts array without Values is dropped from the output.
C10_CountsDroppedWithoutValues ==
    (Passed(parsed) /\ IsArrayInput) =>
        \A i \in 1..Len(InputArray) :
            (IsArray(InputArray[i].Counts) /\ InputArray[i].Values = Undef)
                => parsed.value[i].Counts = Undef

====
